---- MODULE Spec2Model ----
(***************************************************************************)
(* A model of src/video_annotation_shape_detection.py: the capture loop    *)
(* with its mouse callback draw and its key commands, and the shape        *)
(* classifier detect_shape with its sub-routine is_arrow.                  *)
(*                                                                         *)
(* OpenCV and numpy are libraries outside the repository.  A canvas        *)
(* picture is therefore described by what the OpenCV calls of detect_shape *)
(* compute from it (OpenCV is deterministic, so the picture determines     *)
(* these values): the number of contours found, the vertex count of the    *)
(* simplified primary contour, the extent of its bounding rectangle, the   *)
(* points of the primary contour, the size of its convex hull, whether the *)
(* hull indices are monotonous and the array of convexity defects.         *)
(***************************************************************************)
EXTENDS Integers, Sequences, FiniteSets, TLC

(***************************************************************************)
(* State.                                                                  *)
(***************************************************************************)
VARIABLES
    pc,        \* where capture() stands
    frame,     \* the size of the global frame, <<0, 0>> before the first read
    canvas,    \* the global canvas: whether it is defined, its size, its picture
    drawing,   \* global drawing
    mode,      \* global mode
    ix, iy,    \* globals ix, iy
    shape,     \* the detect_shape call of this loop iteration, if any:
               \* its argument, the globals it ran under, what it returned
    memo,      \* an earlier detect_shape call, kept for comparison
    lastSeg,   \* the last segment cv2.line rendered to the canvas, if any
    runs,      \* the calls of capture() so far
    inp,       \* the picture a classifier call is given
    res        \* what the call returned

vars ==
    <<pc, frame, canvas, drawing, mode, ix, iy, shape, memo, lastSeg, runs,
      inp, res>>

uiVars ==
    <<pc, frame, canvas, drawing, mode, ix, iy, shape, memo, lastSeg, runs>>

(***************************************************************************)
(* Bounds of the model.                                                    *)
(***************************************************************************)
MaxContours == 2
MaxVerts == 6
MaxSpan == 20
MaxDefects == 3
MaxClassifyDefects == 2
MaxRuns == 2

(***************************************************************************)
(* Constants of the program.                                               *)
(***************************************************************************)
MinHull == 3
ArrowTrigger == 1
BandLow == 95
BandHigh == 105

Labels ==
    {"Triangle", "Square", "Rectangle", "Circle", "Arrow", "Unknown shape",
     "No shape detected"}

(***************************************************************************)
(* The primary contours of the model: point sequences, indexed from 1      *)
(* (Python indexes them from 0).  The first is a right triangle with a     *)
(* right angle at its first point, the second has an obtuse angle at its   *)
(* first point.                                                            *)
(***************************************************************************)
ContourSet ==
    { << <<12, 0>>, <<13, 1>>, <<0, 12>> >>,
      << <<1, 0>>, <<2, 0>>, <<0, 1>> >> }

\* A row of the defects array is (s, e, f, d): the indices of the start, end
\* and farthest point in the contour, and the depth d, which is_arrow never
\* reads and the model leaves out.
DefectRows(contour) == (1..Len(contour)) \X (1..Len(contour)) \X (1..Len(contour))

\* np.linalg.norm(p - q) is the square root of this integer.
Dist2(p, q) ==
    (p[1] - q[1]) * (p[1] - q[1]) + (p[2] - q[2]) * (p[2] - q[2])

(***************************************************************************)
(* Line 225 in IEEE-754 double arithmetic.  With a2, b2, c2 the squared    *)
(* lengths, the code computes a = sqrt(a2), b = sqrt(b2), c = sqrt(c2) and *)
(* angle = arccos((b**2 + c**2 - a**2) / (2*b*c)) * 180 / pi.              *)
(*  - b = 0 or c = 0: then a2 equals the other squared length, the         *)
(*    quotient is 0.0/0.0, numpy gives nan (a RuntimeWarning, no           *)
(*    exception) and the angle is nan.                                     *)
(*  - b2 + c2 - a2 /= 0: the cosine is at least 1/(2bc) away from 0, far   *)
(*    more than the rounding error, so its sign is the exact sign.         *)
(*  - b2 + c2 - a2 = 0 (an exact right angle): sqrt(k)**2 is k only up to  *)
(*    rounding, so the computed cosine is a few ulps above or below 0.     *)
(*    RoundsPast90 lists the pairs (b2, c2), among those the contours of   *)
(*    ContourSet produce, for which it is below 0 by so much that the      *)
(*    angle comes out above 90: for b2 = 2, c2 = 288, a2 = 290 the cosine  *)
(*    is -2.37e-15 and the angle 90.00000000000014.                        *)
(***************************************************************************)
RoundsPast90 == { <<2, 288>>, <<288, 2>> }

AngleClass(a2, b2, c2) ==
    IF b2 = 0 \/ c2 = 0 THEN "nan"
    ELSE IF b2 + c2 - a2 = 0
         THEN (IF <<b2, c2>> \in RoundsPast90 THEN "gt90" ELSE "le90")
         ELSE (IF b2 + c2 - a2 > 0 THEN "le90" ELSE "gt90")

\* Mutant: the test written as "not angle > 90", which a nan angle passes.
AngleLE90_nanCounts(a2, b2, c2) == AngleClass(a2, b2, c2) /= "gt90"

\* angle <= 90 (line 228); a comparison with nan is False.
AngleLE90(a2, b2, c2) == AngleClass(a2, b2, c2) = "le90"

\* Lines 218-228 for one row of the defects array.
DefectIsSharp(contour, d) ==
    LET start == contour[d[1]]
        end == contour[d[2]]
        far == contour[d[3]]
    IN  AngleLE90(Dist2(start, end), Dist2(start, far), Dist2(end, far))

\* The loop of lines 217-236 from row i on, with the count so far.
RECURSIVE ArrowLoop(_, _, _, _)
ArrowLoop(contour, defects, i, count) ==
    IF i > Len(defects) THEN "False"
    ELSE LET count1 == IF DefectIsSharp(contour, defects[i])
                       THEN count + 1 ELSE count
         IN  IF count1 > ArrowTrigger THEN "True"
             ELSE ArrowLoop(contour, defects, i + 1, count1)

(***************************************************************************)
(* cv2.convexityDefects(contour, hull), line 207: it raises cv2.error      *)
(* ("The convex hull indices are not monotonous, which can be in the case  *)
(* when the input contour contains self-intersections") when the hull      *)
(* indices are not monotonous, and returns None when there is no defect.   *)
(* The empty sequence stands for None.                                     *)
(***************************************************************************)
ConvexityDefects(pic) ==
    IF pic.hullMonotone
    THEN [raised |-> FALSE, rows |-> pic.defects]
    ELSE [raised |-> TRUE, rows |-> << >>]

\* is_arrow(contour): "True", "False", or the exception it lets through.
IsArrow(pic) ==
    IF pic.hullLen < MinHull THEN "False"
    ELSE IF ConvexityDefects(pic).raised THEN "cv2.error"
    ELSE IF Len(ConvexityDefects(pic).rows) = 0 THEN "False"
    ELSE ArrowLoop(pic.contour, ConvexityDefects(pic).rows, 1, 0)

(***************************************************************************)
(* detect_shape, lines 140-196.                                            *)
(***************************************************************************)
\* Mutant: detection skipped while a stroke is in progress, read from the
\* global drawing.
FindContours_whileDrawing(pic) ==
    IF drawing THEN 0 ELSE IF pic.ink THEN pic.ncontours ELSE 0

\* Lines 143-156: an all-background canvas has no edge, hence no contour.
FindContours(pic) == IF pic.ink THEN pic.ncontours ELSE 0

\* len(approx), lines 169-170.
ApproxLen(pic) == pic.nverts

\* cv2.boundingRect(approx), line 182: the rectangle includes both extreme
\* pixels, so its width and height are the spans plus 1.
BoundingRect(pic) == [w |-> pic.xspan + 1, h |-> pic.yspan + 1]

\* Mutant: the lower end of the band excluded, 0.95 < w / float(h) <= 1.05.
AspectInBand_strict(w, h) == BandLow * h < 100 * w /\ 100 * w <= BandHigh * h

\* 0.95 <= w / float(h) <= 1.05, line 184.  The division is correctly
\* rounded, and 19/20 and 21/20 round to the doubles the literals 0.95 and
\* 1.05 denote, so for every w, h a canvas can hold the comparison of doubles
\* is the comparison of the rationals.
AspectInBand(w, h) == BandLow * h <= 100 * w /\ 100 * w <= BandHigh * h

\* The stages every call with at least one contour runs.
BaseStages == {"findContours", "contourArea", "approxPolyDP"}

\* Mutant: the triangle test written len(approx) <= 3.
DetectShape_atMost3(pic) ==
    IF FindContours(pic) = 0
    THEN [out |-> "No shape detected", ran |-> {"findContours"}]
    ELSE IF ApproxLen(pic) <= 3
    THEN [out |-> "Triangle", ran |-> BaseStages]
    ELSE IF ApproxLen(pic) = 4
    THEN [out |-> IF BoundingRect(pic).h = 0 THEN "ZeroDivisionError"
                  ELSE IF AspectInBand(BoundingRect(pic).w, BoundingRect(pic).h)
                       THEN "Square" ELSE "Rectangle",
          ran |-> BaseStages \cup {"boundingRect"}]
    ELSE [out |-> IF IsArrow(pic) = "True" THEN "Arrow"
                  ELSE IF IsArrow(pic) = "False" THEN "Circle"
                  ELSE IsArrow(pic),
          ran |-> BaseStages \cup {"is_arrow"}]

\* Mutant: the test of lines 159-160 left out, so that max() is given an
\* empty list and raises ValueError.
DetectShape_noEmptyTest(pic) ==
    IF FindContours(pic) = 0
    THEN [out |-> "ValueError", ran |-> {"findContours", "contourArea"}]
    ELSE IF ApproxLen(pic) = 3
    THEN [out |-> "Triangle", ran |-> BaseStages]
    ELSE IF ApproxLen(pic) = 4
    THEN [out |-> IF BoundingRect(pic).h = 0 THEN "ZeroDivisionError"
                  ELSE IF AspectInBand(BoundingRect(pic).w, BoundingRect(pic).h)
                       THEN "Square" ELSE "Rectangle",
          ran |-> BaseStages \cup {"boundingRect"}]
    ELSE IF ApproxLen(pic) > 4
    THEN [out |-> IF IsArrow(pic) = "True" THEN "Arrow"
                  ELSE IF IsArrow(pic) = "False" THEN "Circle"
                  ELSE IsArrow(pic),
          ran |-> BaseStages \cup {"is_arrow"}]
    ELSE [out |-> "Unknown shape", ran |-> BaseStages]

\* The label returned (or the exception raised) and the stages run.
DetectShape(pic) ==
    IF FindContours(pic) = 0
    THEN [out |-> "No shape detected", ran |-> {"findContours"}]
    ELSE IF ApproxLen(pic) = 3
    THEN [out |-> "Triangle", ran |-> BaseStages]
    ELSE IF ApproxLen(pic) = 4
    THEN [out |-> IF BoundingRect(pic).h = 0 THEN "ZeroDivisionError"
                  ELSE IF AspectInBand(BoundingRect(pic).w, BoundingRect(pic).h)
                       THEN "Square" ELSE "Rectangle",
          ran |-> BaseStages \cup {"boundingRect"}]
    ELSE IF ApproxLen(pic) > 4
    THEN [out |-> IF IsArrow(pic) = "True" THEN "Arrow"
                  ELSE IF IsArrow(pic) = "False" THEN "Circle"
                  ELSE IsArrow(pic),
          ran |-> BaseStages \cup {"is_arrow"}]
    ELSE [out |-> "Unknown shape", ran |-> BaseStages]

(***************************************************************************)
(* Pictures.                                                               *)
(***************************************************************************)
NoContour == << >>

\* np.zeros_like(frame): no ink.
BlankPic ==
    [ink |-> FALSE, ncontours |-> 0, nverts |-> 0, xspan |-> 0, yspan |-> 0,
     contour |-> NoContour, hullLen |-> 0, hullMonotone |-> TRUE,
     defects |-> << >>]

\* Ink, but no contour found.
FaintPic == [BlankPic EXCEPT !.ink = TRUE]

\* A picture whose primary contour simplifies to n vertices, none of the
\* other values being read for n < 4.
PolyPic(k, n) == [FaintPic EXCEPT !.ncontours = k, !.nverts = n]

\* A picture whose primary contour simplifies to 4 vertices.
QuadPic(k, xs, ys) == [PolyPic(k, 4) EXCEPT !.xspan = xs, !.yspan = ys]

\* A picture whose primary contour simplifies to more than 4 vertices.
CurvedPic(k, n, c, hl, mono, ds) ==
    [PolyPic(k, n) EXCEPT !.contour = c, !.hullLen = hl,
                          !.hullMonotone = mono, !.defects = ds]

\* What OpenCV can report of such a contour: the hull has at most as many
\* points as the contour; a defect lies between two hull edges, so there is
\* none under 3 hull points, and none is computed when the hull indices are
\* not monotonous.
IsCurved(c, hl, mono, ds) ==
    /\ hl <= Len(c)
    /\ (hl < MinHull => mono)
    /\ (hl < MinHull \/ ~mono => Len(ds) = 0)

NoSize == <<0, 0>>
NoCanvas == [defined |-> FALSE, size |-> NoSize, pic |-> BlankPic]
NoCall == [pic |-> BlankPic, globals |-> << >>, out |-> "none", ran |-> {}]
NoSeg == [drawn |-> FALSE, from |-> <<-1, -1>>, inStroke |-> FALSE]
Pending == [out |-> "pending", ran |-> {}]

\* Lines 21-23: the module's globals when it is loaded; canvas and frame are
\* not defined yet.
InitGlobals ==
    /\ pc = "start"
    /\ frame = NoSize
    /\ canvas = NoCanvas
    /\ drawing = FALSE
    /\ mode = TRUE
    /\ ix = -1
    /\ iy = -1
    /\ shape = NoCall
    /\ memo = NoCall
    /\ lastSeg = NoSeg
    /\ runs = 0

(***************************************************************************)
(* is_arrow applied to every contour, hull and defects array in the bounds. *)
(***************************************************************************)
InitArrow ==
    /\ InitGlobals
    /\ res = Pending
    /\ \E c \in ContourSet, hl \in 1..MinHull, mono \in BOOLEAN,
          len \in 0..MaxDefects :
          \E ds \in [1..len -> DefectRows(c)] :
              /\ IsCurved(c, hl, mono, ds)
              /\ inp = CurvedPic(1, MaxVerts, c, hl, mono, ds)

CallIsArrow ==
    /\ res = Pending
    /\ res' = [out |-> IsArrow(inp), ran |-> {"is_arrow"}]
    /\ UNCHANGED <<uiVars, inp>>

NextArrow == CallIsArrow

SpecArrow == InitArrow /\ [][NextArrow]_vars

(***************************************************************************)
(* detect_shape applied to every picture in the bounds.                    *)
(***************************************************************************)
InitClassify ==
    /\ InitGlobals
    /\ res = Pending
    /\ \/ inp \in {BlankPic, FaintPic}
       \/ \E k \in 1..MaxContours, n \in 1..3 : inp = PolyPic(k, n)
       \/ \E k \in 1..MaxContours, xs \in 0..MaxSpan, ys \in 0..MaxSpan :
              inp = QuadPic(k, xs, ys)
       \/ \E k \in 1..MaxContours, n \in 5..MaxVerts, c \in ContourSet,
             hl \in 1..MinHull, mono \in BOOLEAN,
             len \in 0..MaxClassifyDefects :
              \E ds \in [1..len -> DefectRows(c)] :
                  /\ IsCurved(c, hl, mono, ds)
                  /\ inp = CurvedPic(k, n, c, hl, mono, ds)

CallDetectShape ==
    /\ res = Pending
    /\ res' = DetectShape(inp)
    /\ UNCHANGED <<uiVars, inp>>

NextClassify == CallDetectShape

SpecClassify == InitClassify /\ [][NextClassify]_vars

(***************************************************************************)
(* Properties of is_arrow, under SpecArrow.                                *)
(***************************************************************************)
\* The squared side lengths of the triangle of a defect row.
SideA2(contour, d) == Dist2(contour[d[1]], contour[d[2]])
SideB2(contour, d) == Dist2(contour[d[1]], contour[d[3]])
SideC2(contour, d) == Dist2(contour[d[2]], contour[d[3]])

\* The angle at far is at most 90 degrees, in exact arithmetic.
ExactSharp(contour, d) ==
    /\ SideB2(contour, d) > 0
    /\ SideC2(contour, d) > 0
    /\ SideB2(contour, d) + SideC2(contour, d) - SideA2(contour, d) >= 0

ExactSharpCount(contour, ds) ==
    Cardinality({ i \in 1..Len(ds) : ExactSharp(contour, ds[i]) })

\* The farthest point coincides with the start or the end point.
IsDegenerate(contour, d) ==
    SideB2(contour, d) = 0 \/ SideC2(contour, d) = 0

KeepProper(contour, ds) ==
    SelectSeq(ds, LAMBDA d : ~IsDegenerate(contour, d))

C4_DegenerateSkipped ==
    (res /= Pending /\ inp.hullMonotone) =>
        /\ res.out \in {"True", "False"}
        /\ res.out =
             IsArrow([inp EXCEPT !.defects = KeepProper(inp.contour, inp.defects)])

\* A degenerate defect came first, the loop went on and found two sharp ones.
C4_Witness ==
    /\ res.out = "True"
    /\ Len(inp.defects) = 3
    /\ IsDegenerate(inp.contour, inp.defects[1])

(***************************************************************************)
(* Properties of detect_shape, under SpecClassify.                         *)
(***************************************************************************)
\* C1: every call of detect_shape returns a label of the closed set, and
\* raises no error, self-intersecting and degenerate contours included.
C1_Total == res /= Pending => res.out \in Labels

\* C2: with at least one contour the label is decided by the vertex count n
\* of the simplified primary contour: 3 gives Triangle, 4 gives Square or
\* Rectangle, more than 4 gives Arrow when is_arrow returns true and Circle
\* when it returns false, fewer than 3 gives Unknown shape; is_arrow runs
\* only for n > 4.
C2_Dispatch ==
    (res /= Pending /\ FindContours(inp) > 0) =>
        /\ inp.nverts = 3 => res.out = "Triangle"
        /\ inp.nverts = 4 => res.out \in {"Square", "Rectangle"}
        /\ (inp.nverts > 4 /\ IsArrow(inp) = "True") => res.out = "Arrow"
        /\ (inp.nverts > 4 /\ IsArrow(inp) = "False") => res.out = "Circle"
        /\ inp.nverts < 3 => res.out = "Unknown shape"
        /\ "is_arrow" \in res.ran <=> inp.nverts > 4

\* A contour of more than 4 vertices with two sharp defects was classified.
C2_Witness ==
    /\ res.out = "Arrow"
    /\ inp.nverts > 4
    /\ "is_arrow" \in res.ran

\* C5: for 4 vertices and a bounding rectangle of width w and height h the
\* label is Square exactly when 19*h <= 20*w and 20*w <= 21*h, and Rectangle
\* otherwise; w = 2*h gives Rectangle; the division never divides by zero.
C5_SquareBand ==
    (res /= Pending /\ FindContours(inp) > 0 /\ inp.nverts = 4) =>
        LET w == BoundingRect(inp).w
            h == BoundingRect(inp).h
        IN  /\ w >= 1 /\ h >= 1
            /\ res.out \in {"Square", "Rectangle"}
            /\ res.out = "Square" <=> (19 * h <= 20 * w /\ 20 * w <= 21 * h)
            /\ w = 2 * h => res.out = "Rectangle"

\* A quadrilateral on the lower endpoint of the band, w/h = 19/20.
C5_Witness ==
    /\ res.out = "Square"
    /\ inp.nverts = 4
    /\ BoundingRect(inp).w = 19
    /\ BoundingRect(inp).h = 20

(***************************************************************************)
(* The program: capture() with the mouse callback draw.                    *)
(***************************************************************************)
\* The frame sizes the camera delivers (rows, columns).
FrameSizes == { <<480, 640>>, <<720, 1280>> }

\* The positions the mouse reports.
MousePts == { <<1, 1>>, <<2, 3>> }

\* The pictures the canvas holds: no ink; ink but no contour; a triangle; an
\* outline with two sharp defects; a self-intersecting outline.
Sketches ==
    { BlankPic,
      FaintPic,
      PolyPic(1, 3),
      CurvedPic(1, 5, << <<12, 0>>, <<13, 1>>, <<0, 12>> >>, 3, TRUE,
                << <<1, 3, 2>>, <<3, 1, 2>> >>),
      CurvedPic(1, 5, << <<1, 0>>, <<2, 0>>, <<0, 1>> >>, 3, FALSE, << >>) }

\* np.zeros_like(frame), lines 106 and 134.
ZerosLike(size) == [defined |-> TRUE, size |-> size, pic |-> BlankPic]

\* Lines 75-93: capture() is called; the globals are those the module or an
\* earlier call left.  The camera opens, or the program exits.
OpenCapture ==
    /\ pc \in {"start", "returned"}
    /\ runs < MaxRuns
    /\ runs' = runs + 1
    /\ pc' \in {"loop", "exited"}
    /\ UNCHANGED <<frame, canvas, drawing, mode, ix, iy, shape, memo, lastSeg,
                   inp, res>>

\* Lines 97-102 and 137-138: no frame could be read; the loop ends.
ReadFails ==
    /\ pc = "loop"
    /\ pc' = "returned"
    /\ UNCHANGED <<frame, canvas, drawing, mode, ix, iy, shape, memo, lastSeg,
                   runs, inp, res>>

\* Lines 97-112: a frame is read, the canvas is created when the global is
\* not defined, and frame and canvas are blended; cv2.addWeighted raises
\* cv2.error when their sizes differ.
ReadFrame ==
    /\ pc = "loop"
    /\ \E size \in FrameSizes :
          /\ frame' = size
          /\ canvas' = IF canvas.defined THEN canvas ELSE ZerosLike(size)
          /\ pc' = IF canvas'.size = size THEN "waitkey" ELSE "crashed"
    /\ shape' = NoCall
    /\ UNCHANGED <<drawing, mode, ix, iy, memo, lastSeg, runs, inp, res>>

\* What cv2.line can leave on the canvas: red ink in draw mode; in erase
\* mode black, which may remove any part of the ink.
Rendered(pic) ==
    IF mode THEN Sketches \ {BlankPic}
    ELSE IF pic.ink THEN Sketches ELSE {BlankPic}

\* cv2.line(canvas, (ix, iy), (x, y), ...), lines 54, 59, 70 and 73.
Line ==
    /\ \E pic \in Rendered(canvas.pic) : canvas' = [canvas EXCEPT !.pic = pic]
    /\ lastSeg' = [drawn |-> TRUE, from |-> <<ix, iy>>, inStroke |-> drawing]

\* draw, lines 41-45.  HighGUI delivers mouse events inside cv2.waitKey.
MouseDown ==
    /\ pc = "waitkey"
    /\ \E p \in MousePts : ix' = p[1] /\ iy' = p[2]
    /\ drawing' = TRUE
    /\ UNCHANGED <<pc, frame, canvas, mode, shape, memo, lastSeg, runs, inp, res>>

\* draw, lines 48-61.
MouseMove ==
    /\ pc = "waitkey"
    /\ IF drawing
       THEN /\ Line
            /\ \E p \in MousePts : ix' = p[1] /\ iy' = p[2]
       ELSE UNCHANGED <<canvas, lastSeg, ix, iy>>
    /\ UNCHANGED <<pc, frame, drawing, mode, shape, memo, runs, inp, res>>

\* draw, lines 64-73.
MouseUp ==
    /\ pc = "waitkey"
    /\ drawing' = FALSE
    /\ Line
    /\ UNCHANGED <<pc, frame, mode, ix, iy, shape, memo, runs, inp, res>>

\* Lines 117-118 and 137-138.
KeyQuit ==
    /\ pc = "waitkey"
    /\ pc' = "returned"
    /\ UNCHANGED <<frame, canvas, drawing, mode, ix, iy, shape, memo, lastSeg,
                   runs, inp, res>>

\* Lines 119-122.
KeyMode ==
    /\ pc = "waitkey"
    /\ mode' = ~mode
    /\ pc' = "loop"
    /\ UNCHANGED <<frame, canvas, drawing, ix, iy, shape, memo, lastSeg, runs,
                   inp, res>>

\* Mutant: the contours found are drawn onto the canvas that was passed in.
KeySave_marksCanvas ==
    /\ pc = "waitkey"
    /\ shape' = [pic |-> canvas.pic, globals |-> <<drawing, mode>>,
                 out |-> DetectShape(canvas.pic).out,
                 ran |-> DetectShape(canvas.pic).ran]
    /\ memo' \in {memo, shape'}
    /\ pc' = IF shape'.out \in Labels THEN "loop" ELSE "crashed"
    /\ canvas' = [canvas EXCEPT !.pic =
                    IF canvas.pic.ink /\ canvas.pic.ncontours > 0
                    THEN FaintPic ELSE canvas.pic]
    /\ UNCHANGED <<frame, drawing, mode, ix, iy, lastSeg, runs, inp, res>>

\* Lines 123-131: the blended frame is written to a file and detect_shape is
\* given the canvas; an exception it raises ends the program.  memo keeps
\* the call or an earlier one.
KeySave ==
    /\ pc = "waitkey"
    /\ shape' = [pic |-> canvas.pic, globals |-> <<drawing, mode>>,
                 out |-> DetectShape(canvas.pic).out,
                 ran |-> DetectShape(canvas.pic).ran]
    /\ memo' \in {memo, shape'}
    /\ pc' = IF shape'.out \in Labels THEN "loop" ELSE "crashed"
    /\ UNCHANGED <<frame, canvas, drawing, mode, ix, iy, lastSeg, runs, inp, res>>

\* Lines 132-134.
KeyClear ==
    /\ pc = "waitkey"
    /\ canvas' = ZerosLike(frame)
    /\ pc' = "loop"
    /\ UNCHANGED <<frame, drawing, mode, ix, iy, shape, memo, lastSeg, runs,
                   inp, res>>

\* Line 115: no key within the wait, or a key without a command.
NoKey ==
    /\ pc = "waitkey"
    /\ pc' = "loop"
    /\ UNCHANGED <<frame, canvas, drawing, mode, ix, iy, shape, memo, lastSeg,
                   runs, inp, res>>

Init == InitGlobals /\ inp = BlankPic /\ res = Pending

Next ==
    \/ OpenCapture
    \/ ReadFails
    \/ ReadFrame
    \/ MouseDown
    \/ MouseMove
    \/ MouseUp
    \/ KeyQuit
    \/ KeyMode
    \/ KeySave
    \/ KeyClear
    \/ NoKey

Spec == Init /\ [][Next]_vars

(***************************************************************************)
(* Properties of the program, under Spec.                                  *)
(***************************************************************************)
\* C6: on a canvas without ink, and whenever no contour is found,
\* detect_shape returns "No shape detected" and runs neither the area
\* selection, nor the simplification, nor arrow detection.
C6_NoContourNoShape ==
    (shape.out /= "none" /\ (~shape.pic.ink \/ shape.pic.ncontours = 0)) =>
        /\ shape.out = "No shape detected"
        /\ shape.ran = {"findContours"}

\* The s key was pressed over an all-background canvas.
C6_Witness ==
    /\ shape.out = "No shape detected"
    /\ shape.pic = BlankPic
    /\ canvas.defined

C9_CanvasMatchesFrame ==
    frame /= NoSize => (canvas.defined /\ canvas.size = frame)

\* C10: every segment rendered to the canvas starts at a point a button-down
\* or mouse-move event of the stroke in progress recorded: never at the
\* initial (-1, -1), never at the last point of a finished stroke, and never
\* while drawing is false.
C10_SegmentsInStroke ==
    lastSeg.drawn => (lastSeg.inStroke /\ lastSeg.from /= <<-1, -1>>)

====
